---- MODULE Spec2Model ----
(***************************************************************************)
(* EllaBella: a single-user command-line chatbot (src/ellabella.py).       *)
(*                                                                         *)
(* Python strings are modelled as sequences of one-character strings, so   *)
(* that lower(), strip(), split(), replace(), substring containment and    *)
(* slicing are computed character by character as the interpreter does.    *)
(* Python values of other types (None, list, dict, int) carry a type tag,  *)
(* because the code's behaviour depends on the dynamic type it is handed.  *)
(* An exception is the tagged value Raise(e); a handler is a test for it.  *)
(* The log file written through logging is not part of the state.          *)
(***************************************************************************)
EXTENDS Integers, Sequences, FiniteSets, TLC

VARIABLES
    pc,                    \* position of main(): "start", "loop", "done", "crashed"
    prefs_file,            \* contents of user_preferences.json on disk
    user_preferences,      \* EllaBella.user_preferences
    sentiment_analyzer,    \* EllaBella.sentiment_analyzer: "pipeline" or "None"
    conversation_history,  \* EllaBella.conversation_history
    clock,                 \* datetime.now(), as a logical clock ticking per message
    turns,                 \* number of generate_response calls made so far
    api_requests,          \* number of requests.post calls made so far
    printed,               \* the line main() printed last
    line,                  \* the raw line input() returned last
    last                   \* the most recent call and what it was observed to do

vars == <<pc, prefs_file, user_preferences, sentiment_analyzer,
          conversation_history, clock, turns, api_requests, printed, line, last>>

(***************************************************************************)
(* Bounds of the model.                                                    *)
(***************************************************************************)
\* turns of the interactive session with the full input alphabet
MaxTurns == 3
\* turns of the long session that fills the conversation log
MaxLogTurns == 6
\* length of the exhaustively enumerated knowledge topics
MaxTopicLen == 2
\* how far below and above the length limit the formatted texts range
LenSlack == 2

(***************************************************************************)
(* Python values.                                                          *)
(***************************************************************************)
Str(s) == [type |-> "str", v |-> s]
None == [type |-> "NoneType"]
List(items) == [type |-> "list", v |-> items]
PyInt(n) == [type |-> "int", v |-> n]
Dict(f) == [type |-> "dict", v |-> f]
Raise(e) == [type |-> "raise", exc |-> e]

\* bool(x), as "if not text", "if knowledge" and "and response_data" take it
Truthy(x) ==
    CASE x.type = "NoneType" -> FALSE
      [] x.type = "str" -> x.v # << >>
      [] x.type = "list" -> x.v # << >>
      [] x.type = "int" -> x.v # 0
      [] x.type = "dict" -> DOMAIN x.v # {}
      [] OTHER -> TRUE

(***************************************************************************)
(* str methods.                                                            *)
(***************************************************************************)
UpperToLower ==
    "A" :> "a" @@ "B" :> "b" @@ "C" :> "c" @@ "D" :> "d" @@ "E" :> "e" @@
    "F" :> "f" @@ "G" :> "g" @@ "H" :> "h" @@ "I" :> "i" @@ "J" :> "j" @@
    "K" :> "k" @@ "L" :> "l" @@ "M" :> "m" @@ "N" :> "n" @@ "O" :> "o" @@
    "P" :> "p" @@ "Q" :> "q" @@ "R" :> "r" @@ "S" :> "s" @@ "T" :> "t" @@
    "U" :> "u" @@ "V" :> "v" @@ "W" :> "w" @@ "X" :> "x" @@ "Y" :> "y" @@
    "Z" :> "z"

\* str.lower()
Lower(s) ==
    [i \in 1..Len(s) |-> IF s[i] \in DOMAIN UpperToLower THEN UpperToLower[s[i]] ELSE s[i]]

\* the characters str.strip() removes (the ASCII whitespace TLA+ can write)
Whitespace == {" ", "\t", "\n", "\r", "\f"}

\* str.strip()
Strip(s) ==
    LET keep == {i \in 1..Len(s) : s[i] \notin Whitespace}
    IN  IF keep = {} THEN << >>
        ELSE LET lo == CHOOSE i \in keep : \A j \in keep : i <= j
                 hi == CHOOSE i \in keep : \A j \in keep : j <= i
             IN  SubSeq(s, lo, hi)

\* sub in s
In(sub, s) ==
    \E i \in 1..(Len(s) - Len(sub) + 1) : SubSeq(s, i, i + Len(sub) - 1) = sub

\* the positions at which sep occurs in s
Occurrences(s, sep) ==
    {i \in 1..(Len(s) - Len(sep) + 1) : SubSeq(s, i, i + Len(sep) - 1) = sep}

\* s.split(sep), for the part of s at from and after: the separators are taken
\* left to right, each starting at or after the end of the one before
RECURSIVE SplitFrom(_, _, _, _)
SplitFrom(s, sep, occ, from) ==
    LET ahead == {i \in occ : i >= from}
    IN  IF ahead = {} THEN <<SubSeq(s, from, Len(s))>>
        ELSE LET i == CHOOSE i \in ahead : \A j \in ahead : i <= j
             IN  <<SubSeq(s, from, i - 1)>> \o SplitFrom(s, sep, occ, i + Len(sep))

\* str.split(sep)
Split(s, sep) == SplitFrom(s, sep, Occurrences(s, sep), 1)

\* sep.join(pieces)
RECURSIVE Join(_, _)
Join(sep, pieces) ==
    IF pieces = << >> THEN << >>
    ELSE IF Len(pieces) = 1 THEN pieces[1]
    ELSE pieces[1] \o sep \o Join(sep, Tail(pieces))

\* s.replace(old, ""): every occurrence, found left to right, is dropped
Remove(s, old) == Join(<< >>, Split(s, old))

(***************************************************************************)
(* KnowledgeBase.                                                          *)
(***************************************************************************)
USA_TEXT ==
    <<"\n"," "," "," "," "," "," "," "," "," "," "," "," "," "," "," "," ","T","h","e"," ","U","n","i",
      "t","e","d"," ","S","t","a","t","e","s"," ","o","f"," ","A","m","e","r","i","c","a"," ","(","U",
      "S","A",")"," ","i","s"," ","a"," ","f","e","d","e","r","a","l"," ","r","e","p","u","b","l","i",
      "c"," ","c","o","n","s","i","s","t","i","n","g"," ","o","f"," ","5","0"," ","s","t","a","t","e",
      "s",","," ","\n"," "," "," "," "," "," "," "," "," "," "," "," "," "," "," "," ","a"," ","f","e",
      "d","e","r","a","l"," ","d","i","s","t","r","i","c","t",","," ","a","n","d"," ","v","a","r","i",
      "o","u","s"," ","t","e","r","r","i","t","o","r","i","e","s","."," ","I","t"," ","i","s"," ","t",
      "h","e"," ","w","o","r","l","d","'","s"," ","t","h","i","r","d","-","l","a","r","g","e","s","t",
      " ","c","o","u","n","t","r","y"," ","\n"," "," "," "," "," "," "," "," "," "," "," "," "," "," ",
      " "," ","b","y"," ","t","o","t","a","l"," ","a","r","e","a"," ","a","n","d"," ","p","o","p","u",
      "l","a","t","i","o","n","."," ","T","h","e"," ","c","a","p","i","t","a","l"," ","i","s"," ","W",
      "a","s","h","i","n","g","t","o","n",","," ","D",".","C",".",","," ","a","n","d"," ","t","h","e",
      " ","l","a","r","g","e","s","t"," ","c","i","t","y"," ","\n"," "," "," "," "," "," "," "," "," ",
      " "," "," "," "," "," "," ","i","s"," ","N","e","w"," ","Y","o","r","k"," ","C","i","t","y",".",
      " ","T","h","e"," ","U","S","A"," ","i","s"," ","k","n","o","w","n"," ","f","o","r"," ","i","t",
      "s"," ","d","i","v","e","r","s","e"," ","g","e","o","g","r","a","p","h","y",","," ","m","u","l",
      "t","i","c","u","l","t","u","r","a","l"," ","p","o","p","u","l","a","t","i","o","n",","," ","\n",
      " "," "," "," "," "," "," "," "," "," "," "," "," "," "," "," ","s","t","r","o","n","g"," ","e",
      "c","o","n","o","m","y",","," ","a","n","d"," ","s","i","g","n","i","f","i","c","a","n","t"," ",
      "g","l","o","b","a","l"," ","i","n","f","l","u","e","n","c","e"," ","i","n"," ","p","o","l","i",
      "t","i","c","s",","," ","c","u","l","t","u","r","e",","," ","a","n","d"," ","t","e","c","h","n",
      "o","l","o","g","y",".","\n"," "," "," "," "," "," "," "," "," "," "," "," "," "," "," "," ">>

GREETING_LIST ==
    <<Str(<<"H","e","l","l","o","!"," ","H","o","w"," ","c","a","n"," ","I"," ","h","e","l","p"," ","y","o","u"," ","t","o","d","a","y","?">>),
      Str(<<"H","i"," ","t","h","e","r","e","!"," ","W","h","a","t"," ","w","o","u","l","d"," ","y","o","u"," ","l","i","k","e"," ","t","o"," ","k","n","o","w"," ","a","b","o","u","t","?">>),
      Str(<<"G","r","e","e","t","i","n","g","s","!"," ","I","'","m"," ","h","e","r","e"," ","t","o"," ","a","s","s","i","s","t"," ","y","o","u",".">>)>>

ABOUT_ME_TEXT ==
    <<"\n"," "," "," "," "," "," "," "," "," "," "," "," "," "," "," "," ","I","'","m"," ","E","l","l",
      "a","B","e","l","l","a",","," ","a","n"," ","A","I"," ","a","s","s","i","s","t","a","n","t"," ",
      "d","e","s","i","g","n","e","d"," ","t","o"," ","h","e","l","p"," ","a","n","s","w","e","r"," ",
      "q","u","e","s","t","i","o","n","s"," ","a","n","d"," ","p","r","o","v","i","d","e"," ","i","n",
      "f","o","r","m","a","t","i","o","n"," ","\n"," "," "," "," "," "," "," "," "," "," "," "," "," ",
      " "," "," ","o","n"," ","v","a","r","i","o","u","s"," ","t","o","p","i","c","s","."," ","I"," ",
      "a","i","m"," ","t","o"," ","b","e"," ","h","e","l","p","f","u","l"," ","w","h","i","l","e"," ",
      "b","e","i","n","g"," ","c","l","e","a","r"," ","a","b","o","u","t"," ","m","y"," ","c","a","p",
      "a","b","i","l","i","t","i","e","s"," ","a","n","d"," ","l","i","m","i","t","a","t","i","o","n",
      "s",".","\n"," "," "," "," "," "," "," "," "," "," "," "," "," "," "," "," ">>

\* self.knowledge, in the order the dict literal inserts its keys
knowledge ==
    <<[key |-> <<"u","s","a">>, value |-> Str(USA_TEXT)],
      [key |-> <<"g","r","e","e","t","i","n","g">>, value |-> List(GREETING_LIST)],
      [key |-> <<"a","b","o","u","t","_","m","e">>, value |-> Str(ABOUT_ME_TEXT)]>>

\* the "for key in self.knowledge" loop, from entry i on
RECURSIVE PartialMatch(_, _)
PartialMatch(topic_key, i) ==
    IF i > Len(knowledge) THEN None
    ELSE IF In(knowledge[i].key, topic_key) \/ In(topic_key, knowledge[i].key)
         THEN knowledge[i].value
         ELSE PartialMatch(topic_key, i + 1)

\* get_knowledge with the topic trimmed but not lowercased
get_knowledge_cased(topic) ==
    LET topic_key == Strip(topic)
        exact == {i \in 1..Len(knowledge) : knowledge[i].key = topic_key}
    IN  IF exact # {} THEN knowledge[CHOOSE i \in exact : TRUE].value
        ELSE PartialMatch(topic_key, 1)

get_knowledge(topic) ==
    LET topic_key == Strip(Lower(topic))
        exact == {i \in 1..Len(knowledge) : knowledge[i].key = topic_key}
    IN  IF exact # {} THEN knowledge[CHOOSE i \in exact : TRUE].value
        ELSE PartialMatch(topic_key, 1)

(***************************************************************************)
(* EllaBella._identify_intent.                                             *)
(***************************************************************************)
\* the intents dict, in insertion order
intents ==
    <<[intent |-> "greeting",
       patterns |-> <<<<"h","e","l","l","o">>, <<"h","i">>, <<"h","e","y">>, <<"g","r","e","e","t","i","n","g","s">>, <<"g","o","o","d"," ","m","o","r","n","i","n","g">>,
                      <<"g","o","o","d"," ","a","f","t","e","r","n","o","o","n">>>>],
      [intent |-> "about_bot",
       patterns |-> <<<<"w","h","o"," ","a","r","e"," ","y","o","u">>, <<"w","h","a","t"," ","a","r","e"," ","y","o","u">>, <<"t","e","l","l"," ","m","e"," ","a","b","o","u","t"," ","y","o","u","r","s","e","l","f">>>>],
      [intent |-> "farewell",
       patterns |-> <<<<"g","o","o","d","b","y","e">>, <<"b","y","e">>, <<"s","e","e"," ","y","o","u">>, <<"q","u","i","t">>, <<"e","x","i","t">>>>],
      [intent |-> "about_topic",
       patterns |-> <<<<"t","e","l","l"," ","m","e"," ","a","b","o","u","t">>, <<"w","h","a","t"," ","i","s">>, <<"w","h","o"," ","i","s">>, <<"e","x","p","l","a","i","n">>>>],
      [intent |-> "personal_info",
       patterns |-> <<<<"i"," ","a","m">>, <<"i","'","m">>, <<"m","y"," ","n","a","m","e">>, <<"a","b","o","u","t"," ","m","e">>>>],
      [intent |-> "affirmation",
       patterns |-> <<<<"y","e","s">>, <<"y","e","a","h">>, <<"s","u","r","e">>, <<"o","k","a","y">>, <<"o","k">>>>],
      [intent |-> "negation",
       patterns |-> <<<<"n","o">>, <<"n","o","p","e">>, <<"n","o","t">>>>],
      [intent |-> "gratitude",
       patterns |-> <<<<"t","h","a","n","k">>, <<"t","h","a","n","k","s">>, <<"a","p","p","r","e","c","i","a","t","e">>>>]>>

\* the confidences 0.8 and 0.5, in tenths
CONF_MATCH == 8
CONF_DEFAULT == 5

\* the "for intent, patterns in intents.items()" loop, from entry i on
RECURSIVE MatchIntent(_, _)
MatchIntent(input_lower, i) ==
    IF i > Len(intents) THEN <<"general_query", CONF_DEFAULT>>
    ELSE IF \E k \in 1..Len(intents[i].patterns) : In(intents[i].patterns[k], input_lower)
         THEN <<intents[i].intent, CONF_MATCH>>
         ELSE MatchIntent(input_lower, i + 1)

\* _identify_intent matching the patterns against the input as typed
identify_intent_cased(user_input) == MatchIntent(user_input, 1)

identify_intent(user_input) == MatchIntent(Lower(user_input), 1)

(***************************************************************************)
(* EllaBella._format_response.                                             *)
(***************************************************************************)
MAX_RESPONSE_LEN == 500
TRUNCATED_LEN == 497

TROUBLE_GENERATING ==
    <<"I"," ","a","p","o","l","o","g","i","z","e",","," ","b","u","t"," ","I","'","m"," ","h","a","v","i","n","g"," ","t","r","o","u","b","l","e"," ","g","e","n","e","r","a","t","i","n","g"," ","a"," ","r","e","s","p","o","n","s","e"," ","r","i","g","h","t"," ","n","o","w",".">>

\* the lines of text that are not blank, each stripped
StrippedLines(text) ==
    LET lines == Split(text, <<"\n">>)
    IN  SelectSeq([i \in 1..Len(lines) |-> Strip(lines[i])], LAMBDA l : l # << >>)

\* _format_response cutting at the limit without the ellipsis
format_response_noellipsis(text) ==
    IF ~Truthy(text) THEN Str(TROUBLE_GENERATING)
    ELSE IF text.type # "str" THEN Raise("AttributeError")
    ELSE LET stripped == Strip(Remove(Remove(text.v, <<"E","l","l","a","B","e","l","l","a",":">>), <<"A","s","s","i","s","t","a","n","t",":">>))
             cleaned_text == Join(<<" ">>, StrippedLines(stripped))
         IN  IF Len(cleaned_text) > MAX_RESPONSE_LEN
             THEN Str(SubSeq(cleaned_text, 1, MAX_RESPONSE_LEN))
             ELSE Str(cleaned_text)

format_response(text) ==
    IF ~Truthy(text) THEN Str(TROUBLE_GENERATING)
    ELSE IF text.type # "str" THEN Raise("AttributeError")
    ELSE LET stripped == Strip(Remove(Remove(text.v, <<"E","l","l","a","B","e","l","l","a",":">>), <<"A","s","s","i","s","t","a","n","t",":">>))
             cleaned_text == Join(<<" ">>, StrippedLines(stripped))
         IN  IF Len(cleaned_text) > MAX_RESPONSE_LEN
             THEN Str(SubSeq(cleaned_text, 1, TRUNCATED_LEN) \o <<".",".",".">>)
             ELSE Str(cleaned_text)

(***************************************************************************)
(* EllaBella._get_api_response.                                            *)
(***************************************************************************)
HTTP_OK == 200

NEED_CONTEXT ==
    <<"I"," ","a","p","o","l","o","g","i","z","e",","," ","b","u","t"," ","I"," ","n","e","e","d"," ",
      "m","o","r","e"," ","c","o","n","t","e","x","t"," ","t","o"," ","p","r","o","v","i","d","e"," ",
      "a"," ","h","e","l","p","f","u","l"," ","r","e","s","p","o","n","s","e","."," ","C","o","u","l",
      "d"," ","y","o","u"," ","p","l","e","a","s","e"," ","e","l","a","b","o","r","a","t","e","?">>

UNAVAILABLE ==
    <<"I"," ","a","p","o","l","o","g","i","z","e",","," ","b","u","t"," ","I","'","m"," ","h","a","v",
      "i","n","g"," ","t","r","o","u","b","l","e"," ","a","c","c","e","s","s","i","n","g"," ","m","y",
      " ","k","n","o","w","l","e","d","g","e"," ","b","a","s","e"," ","r","i","g","h","t"," ","n","o",
      "w",".">>

\* What requests.post does: it raises, or returns a response with a status and
\* a body; body is what response.json() yields, Raise when it does not parse.
PostRaises == [kind |-> "raise"]
Response(status, body) == [kind |-> "response", status_code |-> status, body |-> body]

\* response_data[0].get('generated_text', '')
GeneratedText(item) ==
    IF item.type # "dict" THEN Raise("AttributeError")
    ELSE IF "generated_text" \in DOMAIN item.v THEN item.v.generated_text
    ELSE Str(<< >>)

\* _get_api_response treating any response as a success
get_api_response_anystatus(post) ==
    IF post.kind = "raise" THEN [ret |-> Str(UNAVAILABLE), raised |-> TRUE]
    ELSE LET response_data == post.body
         IN  IF response_data.type = "raise"
             THEN [ret |-> Str(UNAVAILABLE), raised |-> TRUE]
             ELSE IF response_data.type = "list" /\ Truthy(response_data)
             THEN LET text == GeneratedText(response_data.v[1])
                  IN  IF text.type = "raise"
                      THEN [ret |-> Str(UNAVAILABLE), raised |-> TRUE]
                      ELSE [ret |-> text, raised |-> FALSE]
             ELSE [ret |-> Str(NEED_CONTEXT), raised |-> FALSE]

\* The value returned for the outcome post of the one requests.post call, and
\* whether the function's own handler caught an exception.
get_api_response(post) ==
    IF post.kind = "raise" THEN [ret |-> Str(UNAVAILABLE), raised |-> TRUE]
    ELSE IF post.status_code = HTTP_OK
    THEN LET response_data == post.body
         IN  IF response_data.type = "raise"
             THEN [ret |-> Str(UNAVAILABLE), raised |-> TRUE]
             ELSE IF response_data.type = "list" /\ Truthy(response_data)
             THEN LET text == GeneratedText(response_data.v[1])
                  IN  IF text.type = "raise"
                      THEN [ret |-> Str(UNAVAILABLE), raised |-> TRUE]
                      ELSE [ret |-> text, raised |-> FALSE]
             ELSE [ret |-> Str(NEED_CONTEXT), raised |-> FALSE]
    ELSE [ret |-> Str(NEED_CONTEXT), raised |-> FALSE]

(***************************************************************************)
(* EllaBella.generate_response.                                            *)
(***************************************************************************)
HELLO == <<"H","e","l","l","o","!"," ","H","o","w"," ","c","a","n"," ","I"," ","h","e","l","p"," ","y","o","u"," ","t","o","d","a","y","?">>
GOODBYE == <<"G","o","o","d","b","y","e","!"," ","H","a","v","e"," ","a"," ","g","r","e","a","t"," ","d","a","y","!">>
WELCOME == <<"Y","o","u","'","r","e"," ","w","e","l","c","o","m","e","!"," ","I","s"," ","t","h","e","r","e"," ","a","n","y","t","h","i","n","g"," ","e","l","s","e"," ","y","o","u","'","d"," ","l","i","k","e"," ","t","o"," ","k","n","o","w","?">>
APOLOGY ==
    <<"I"," ","a","p","o","l","o","g","i","z","e",","," ","b","u","t"," ","I"," ","e","n","c","o","u",
      "n","t","e","r","e","d"," ","a","n"," ","e","r","r","o","r"," ","w","h","i","l","e"," ","p","r",
      "o","c","e","s","s","i","n","g"," ","y","o","u","r"," ","r","e","q","u","e","s","t",".">>
TELL_ME_ABOUT == <<"t","e","l","l"," ","m","e"," ","a","b","o","u","t">>

\* no requests.post call was made
NoPost == [kind |-> "none"]

\* The try block of generate_response up to the candidate response: the value
\* assigned to response before formatting, the topic and the knowledge looked
\* up (None where the branch does neither), and what _get_api_response did:
\* the number of requests, the "inputs" it sent and how the request ended.
Dispatch(user_input, post) ==
    LET intent == identify_intent(user_input)[1]
        canned(text) == [response |-> text, topic |-> None, knowledge |-> None,
                         requests |-> 0, inputs |-> None, post |-> NoPost,
                         remote_raised |-> FALSE]
        remote(topic, found) ==
            LET api == get_api_response(post)
            IN  [response |-> api.ret, topic |-> topic, knowledge |-> found,
                 requests |-> 1, inputs |-> Str(user_input), post |-> post,
                 remote_raised |-> api.raised]
    IN  IF intent = "greeting" THEN canned(Str(HELLO))
        ELSE IF intent = "about_bot" THEN canned(get_knowledge(<<"a","b","o","u","t","_","m","e">>))
        ELSE IF intent = "farewell" THEN canned(Str(GOODBYE))
        ELSE IF intent = "gratitude" THEN canned(Str(WELCOME))
        ELSE IF In(TELL_ME_ABOUT, Lower(user_input))
        THEN LET pieces == Split(Lower(user_input), TELL_ME_ABOUT)
                 topic == Strip(pieces[Len(pieces)])
                 found == get_knowledge(topic)
             IN  IF Truthy(found)
                 THEN [response |-> found, topic |-> Str(topic), knowledge |-> found,
                       requests |-> 0, inputs |-> None, post |-> NoPost,
                       remote_raised |-> FALSE]
                 ELSE remote(Str(topic), found)
        ELSE remote(None, None)

\* generate_response without its except clause
Respond_unhandled(user_input, post) ==
    LET cls == identify_intent(user_input)
        d == Dispatch(user_input, post)
        formatted == format_response(d.response)
    IN  [response |-> formatted,
         caught |-> FALSE,
         intent |-> cls[1], confidence |-> cls[2],
         topic |-> d.topic, knowledge |-> d.knowledge,
         requests |-> d.requests, inputs |-> d.inputs, post |-> d.post,
         remote_raised |-> d.remote_raised]

\* What one generate_response call computes: response is the value returned
\* (Raise if an exception left the call), and caught tells whether the except
\* clause produced it.
Respond(user_input, post) ==
    LET cls == identify_intent(user_input)
        d == Dispatch(user_input, post)
        formatted == format_response(d.response)
        caught == formatted.type = "raise"
    IN  [response |-> IF caught THEN Str(APOLOGY) ELSE formatted,
         caught |-> caught,
         intent |-> cls[1], confidence |-> cls[2],
         topic |-> d.topic, knowledge |-> d.knowledge,
         requests |-> d.requests, inputs |-> d.inputs, post |-> d.post,
         remote_raised |-> d.remote_raised]

\* add_message: the history with the message appended; now is datetime.now()
add_message(history, now, content, sender) ==
    Append(history, [content |-> content, timestamp |-> now, sender |-> sender])

\* generate_response logging the response only when no exception was caught
GenerateResponse_unlogged(user_input, post) ==
    /\ last' = [fn |-> "generate_response", arg |-> user_input,
                out |-> Respond(user_input, post)]
    /\ LET logged == add_message(conversation_history, clock + 1, user_input, "user")
       IN  IF last'.out.caught
           THEN conversation_history' = logged /\ clock' = clock + 1
           ELSE /\ conversation_history' =
                       add_message(logged, clock + 2, last'.out.response.v, "EllaBella")
                /\ clock' = clock + 2
    /\ turns' = turns + 1
    /\ api_requests' = api_requests + last'.out.requests

\* generate_response(user_input), the one request it may make ending as post.
\* last.out keeps what the call computed; out.response is the value returned.
\* An exception leaving the call would leave it before the second add_message.
GenerateResponse(user_input, post) ==
    /\ last' = [fn |-> "generate_response", arg |-> user_input,
                out |-> Respond(user_input, post)]
    /\ LET logged == add_message(conversation_history, clock + 1, user_input, "user")
       IN  IF last'.out.response.type = "raise"
           THEN conversation_history' = logged /\ clock' = clock + 1
           ELSE /\ conversation_history' =
                       add_message(logged, clock + 2, last'.out.response.v, "EllaBella")
                /\ clock' = clock + 2
    /\ turns' = turns + 1
    /\ api_requests' = api_requests + last'.out.requests

(***************************************************************************)
(* EllaBella.get_conversation_summary.                                     *)
(***************************************************************************)
SUMMARY_LEN == 10

\* datetime.isoformat()
IsoFormat(t) == [isoformat |-> t]

\* history[:10]
LastMessages_first(history) ==
    IF Len(history) <= SUMMARY_LEN THEN history ELSE SubSeq(history, 1, SUMMARY_LEN)

\* history[-10:]
LastMessages(history) ==
    IF Len(history) <= SUMMARY_LEN THEN history
    ELSE SubSeq(history, Len(history) - SUMMARY_LEN + 1, Len(history))

get_conversation_summary(history) ==
    LET recent == LastMessages(history)
    IN  [i \in 1..Len(recent) |->
            [content |-> recent[i].content,
             timestamp |-> IsoFormat(recent[i].timestamp),
             sender |-> recent[i].sender]]

GetConversationSummary ==
    /\ pc \in {"loop", "done"}
    /\ last' = [fn |-> "get_conversation_summary",
                ret |-> get_conversation_summary(conversation_history)]
    /\ UNCHANGED <<pc, prefs_file, user_preferences, sentiment_analyzer,
                   conversation_history, clock, turns, api_requests, printed, line>>

(***************************************************************************)
(* EllaBella.__init__ and _load_preferences.                               *)
(***************************************************************************)
DEFAULT_PREFERENCES ==
    [name |-> "User",
     preferences |-> [theme |-> "light", notification_enabled |-> TRUE, language |-> "en"]]

\* user_preferences.json: absent, or present with what json.load makes of it
Absent == [exists |-> FALSE]
Contents(parsed) == [exists |-> TRUE, json |-> parsed]

\* self._save_default_preferences(default_preferences): the class defines no
\* such method, so the attribute lookup raises and nothing is written
save_default_preferences(file, preferences) ==
    [file |-> file, ret |-> Raise("AttributeError")]

\* _load_preferences: the value returned or the exception leaving the method,
\* and the file afterwards
load_preferences(file) ==
    IF ~file.exists \/ file.json = Raise("JSONDecodeError")
    THEN LET saved == save_default_preferences(file, DEFAULT_PREFERENCES)
         IN  IF saved.ret.type = "raise" THEN saved
             ELSE [file |-> saved.file, ret |-> DEFAULT_PREFERENCES]
    ELSE [file |-> file, ret |-> file.json]

(***************************************************************************)
(* main.                                                                   *)
(***************************************************************************)
BANNER ==
    <<"E","l","l","a","B","e","l","l","a",":"," ","H","e","l","l","o","!"," ","I","'","m"," ","E","l",
      "l","a","B","e","l","l","a",","," ","y","o","u","r"," ","p","e","r","s","o","n","a","l"," ","A",
      "I"," ","a","s","s","i","s","t","a","n","t","."," ","H","o","w"," ","c","a","n"," ","I"," ","h",
      "e","l","p"," ","y","o","u"," ","t","o","d","a","y","?">>
BOT_PREFIX == <<"E","l","l","a","B","e","l","l","a",":"," ">>
ERROR_PREFIX == <<"A","n"," ","e","r","r","o","r"," ","o","c","c","u","r","r","e","d",":"," ">>
QUIT_WORDS == {<<"q","u","i","t">>, <<"e","x","i","t">>, <<"b","y","e">>}


\* main() up to the first prompt. api_token is HUGGINGFACE_API_TOKEN ("" when
\* unset); pipeline_loads tells whether the sentiment model could be loaded.
\* Of the line printed for a fatal error only the fixed prefix is kept.
Main_Start(api_token, pipeline_loads) ==
    /\ pc = "start"
    /\ IF api_token = ""
       THEN /\ pc' = "crashed"
            /\ last' = [fn |-> "main", raised |-> "ValueError"]
            /\ UNCHANGED <<prefs_file, user_preferences, sentiment_analyzer, printed>>
       ELSE LET loaded == load_preferences(prefs_file)
            IN  /\ prefs_file' = loaded.file
                /\ IF "type" \in DOMAIN loaded.ret /\ loaded.ret.type = "raise"
                   THEN /\ pc' = "crashed"
                        /\ printed' = ERROR_PREFIX
                        /\ last' = [fn |-> "main", raised |-> loaded.ret.exc]
                        /\ UNCHANGED <<user_preferences, sentiment_analyzer>>
                   ELSE /\ pc' = "loop"
                        /\ user_preferences' = loaded.ret
                        /\ sentiment_analyzer' = IF pipeline_loads THEN "pipeline" ELSE "None"
                        /\ printed' = BANNER
                        /\ last' = [fn |-> "__init__"]
    /\ UNCHANGED <<conversation_history, clock, turns, api_requests, line>>

\* user_input.lower() in ['quit', 'exit', 'bye'], without the lower()
IsQuitWord_cased(user_input) == user_input \in QUIT_WORDS

\* user_input.lower() in ['quit', 'exit', 'bye']
IsQuitWord(user_input) == Lower(user_input) \in QUIT_WORDS

\* One pass of the loop on an input that is not a quit word. An exception
\* leaving generate_response would be printed and end main().
Main_Turn(raw, post) ==
    /\ pc = "loop"
    /\ ~IsQuitWord(Strip(raw))
    /\ line' = raw
    /\ GenerateResponse(Strip(raw), post)
    /\ IF last'.out.response.type = "raise"
       THEN pc' = "crashed" /\ printed' = ERROR_PREFIX
       ELSE pc' = "loop" /\ printed' = BOT_PREFIX \o last'.out.response.v
    /\ UNCHANGED <<prefs_file, user_preferences, sentiment_analyzer>>

\* One pass of the loop on a quit word: the farewell is printed and the loop left.
Main_Quit(raw) ==
    /\ pc = "loop"
    /\ IsQuitWord(Strip(raw))
    /\ line' = raw
    /\ printed' = BOT_PREFIX \o GOODBYE
    /\ pc' = "done"
    /\ UNCHANGED <<prefs_file, user_preferences, sentiment_analyzer,
                   conversation_history, clock, turns, api_requests, last>>

(***************************************************************************)
(* The interactive session.                                                *)
(***************************************************************************)
PrefsFiles ==
    {Absent, Contents(Raise("JSONDecodeError")), Contents(DEFAULT_PREFERENCES)}

GENERATED == <<"I","t"," ","i","s"," ","a"," ","l","a","n","g","u","a","g","e",".">>

Posts ==
    {PostRaises,
     Response(503, Raise("JSONDecodeError")),
     Response(500, Dict([error |-> Str(<<"b","u","s","y">>)])),
     Response(404, List(<<Dict([generated_text |-> Str(GENERATED)])>>)),
     Response(HTTP_OK, Raise("JSONDecodeError")),
     Response(HTTP_OK, Dict([error |-> Str(<<"b","u","s","y">>)])),
     Response(HTTP_OK, List(<< >>)),
     Response(HTTP_OK, List(<<Dict([generated_text |-> Str(GENERATED)])>>)),
     Response(HTTP_OK, List(<<Dict([generated_text |-> Str(<<"E","l","l","a","B","e","l","l","a",":"," ","S","u","r","e",".","\n"," ","I","t"," ","i","s","."," ">>)])>>)),
     Response(HTTP_OK, List(<<Dict([generated_text |-> Str(<< >>)])>>)),
     Response(HTTP_OK, List(<<Dict([score |-> PyInt(1)])>>)),
     Response(HTTP_OK, List(<<Dict([generated_text |-> None])>>)),
     Response(HTTP_OK, List(<<Dict([generated_text |-> PyInt(7)])>>)),
     Response(HTTP_OK, List(<<Str(GENERATED)>>))}

LoopPosts ==
    {PostRaises,
     Response(500, Dict([error |-> Str(<<"b","u","s","y">>)])),
     Response(HTTP_OK, Raise("JSONDecodeError")),
     Response(HTTP_OK, List(<<Dict([generated_text |-> Str(GENERATED)])>>))}

\* the lines typed in the session
Lines ==
    {<<"q","u","i","t">>, <<" ","B","Y","E"," ">>, <<"E","x","i","t","\n">>,
     <<"h","i">>, <<"b","y","e","!">>, <<" ","w","h","y"," ">>, <<"t","e","l","l"," ","m","e"," ","a","b","o","u","t"," ","g","r","e","e","t","i","n","g">>, <<"t","e","l","l"," ","m","e"," ","a","b","o","u","t"," ","a","b","o","u","t","_","m","e">>}

Init ==
    /\ pc = "start"
    /\ prefs_file \in PrefsFiles
    /\ user_preferences = None
    /\ sentiment_analyzer = "None"
    /\ conversation_history = << >>
    /\ clock = 0
    /\ turns = 0
    /\ api_requests = 0
    /\ printed = << >>
    /\ line = << >>
    /\ last = [fn |-> "none"]

Next ==
    \/ \E api_token \in {"", "hf_token"}, pipeline_loads \in BOOLEAN :
           Main_Start(api_token, pipeline_loads)
    \/ \E raw \in Lines, post \in LoopPosts : turns < MaxTurns /\ Main_Turn(raw, post)
    \/ \E raw \in Lines : Main_Quit(raw)
    \/ GetConversationSummary

Spec == Init /\ [][Next]_vars

(***************************************************************************)
(* A long session: few inputs, enough turns to outgrow the summary.        *)
(***************************************************************************)
LogLines == {<<"h","i">>, <<"w","h","y">>, <<"q","u","i","t">>, <<" ","B","Y","E"," ">>}

LogPosts ==
    {PostRaises, Response(HTTP_OK, List(<<Dict([generated_text |-> Str(GENERATED)])>>))}

NextLog ==
    \/ \E pipeline_loads \in BOOLEAN : Main_Start("hf_token", pipeline_loads)
    \/ \E raw \in LogLines, post \in LogPosts : turns < MaxLogTurns /\ Main_Turn(raw, post)
    \/ \E raw \in LogLines : Main_Quit(raw)
    \/ GetConversationSummary

SpecLog == Init /\ [][NextLog]_vars

(***************************************************************************)
(* One turn of a freshly started session, on any of many inputs.           *)
(***************************************************************************)
TurnLines ==
    {<<"h","i">>, <<"H","e","l","l","o"," ","t","h","e","r","e">>, <<"t","h","i","s">>, <<"w","h","o"," ","a","r","e"," ","y","o","u">>, <<"b","y","e","!">>, <<"T","h","a","n","k","s"," ","a"," ","l","o","t">>,
     <<"t","e","l","l"," ","m","e"," ","a","b","o","u","t"," ","y","o","u","r","s","e","l","f">>, <<"h","i",","," ","t","e","l","l"," ","m","e"," ","a","b","o","u","t"," ","u","s","a">>,
     <<"t","e","l","l"," ","m","e"," ","a","b","o","u","t"," ","u","s","a">>, <<"T","e","l","l"," ","m","e"," ","a","b","o","u","t"," ","t","h","e"," ","U","S","A">>, <<"t","e","l","l"," ","m","e"," ","a","b","o","u","t"," ","g","r","e","e","t","i","n","g">>,
     <<"t","e","l","l"," ","m","e"," ","a","b","o","u","t"," ","e">>, <<"t","e","l","l"," ","m","e"," ","a","b","o","u","t"," ","a","b","o","u","t","_","m","e">>, <<"p","l","e","a","s","e"," ","t","e","l","l"," ","m","e"," ","a","b","o","u","t"," "," ","A","B","O","U","T","_","M","E"," "," ">>,
     <<"t","e","l","l"," ","m","e"," ","a","b","o","u","t">>, <<"t","e","l","l"," ","m","e"," ","a","b","o","u","t"," ","c","a","t","s">>, <<"t","e","l","l"," ","m","e"," ","a","b","o","u","t"," ","a","b","o","u","t"," ","m","e">>,
     <<"t","e","l","l"," ","m","e"," ","a","b","o","u","t"," ","c","a","t","s",","," ","t","e","l","l"," ","m","e"," ","a","b","o","u","t"," ","u","s","a">>, <<"t","e","l","l"," ","m","e"," ","a","b","o","u","t","e","l","l"," ","m","e"," ","a","b","o","u","t">>,
     <<"N","o",","," ","t","e","l","l"," ","m","e"," ","a","b","o","u","t"," ","U","S","A">>, <<"w","h","a","t"," ","a","r","e"," ","y","o","u">>, <<"s","e","e"," ","y","o","u">>,
     <<"w","h","y">>, <<"w","h","a","t"," ","i","s"," ","r","u","s","t">>, <<"e","x","p","l","a","i","n"," ","r","u","s","t">>, <<"I"," ","k","n","o","w">>, <<"o","k">>}

\* the state Main_Start leaves when the preference file holds the defaults
Started ==
    /\ pc = "loop"
    /\ prefs_file = Contents(DEFAULT_PREFERENCES)
    /\ user_preferences = DEFAULT_PREFERENCES
    /\ sentiment_analyzer = "pipeline"
    /\ conversation_history = << >>
    /\ clock = 0
    /\ turns = 0
    /\ api_requests = 0
    /\ printed = BANNER
    /\ line = << >>
    /\ last = [fn |-> "__init__"]

NextTurn ==
    \E raw \in TurnLines, post \in Posts : turns = 0 /\ Main_Turn(raw, post)

SpecTurn == Started /\ [][NextTurn]_vars

(***************************************************************************)
(* Single calls of the pure methods: the argument is drawn at the start,   *)
(* and the one step is the call.                                           *)
(***************************************************************************)
Calling(fn, args) ==
    /\ pc = "call"
    /\ prefs_file = Contents(DEFAULT_PREFERENCES)
    /\ user_preferences = DEFAULT_PREFERENCES
    /\ sentiment_analyzer = "pipeline"
    /\ conversation_history = << >>
    /\ clock = 0
    /\ turns = 0
    /\ api_requests = 0
    /\ printed = BANNER
    /\ line = << >>
    /\ last \in {[fn |-> fn, arg |-> a, returned |-> FALSE, ret |-> None] : a \in args}

Returning(value) ==
    /\ ~last.returned
    /\ last' = [last EXCEPT !.returned = TRUE, !.ret = value]
    /\ UNCHANGED <<pc, prefs_file, user_preferences, sentiment_analyzer,
                   conversation_history, clock, turns, api_requests, printed, line>>

\* every pattern of the intents table
Patterns ==
    UNION {{intents[i].patterns[k] : k \in 1..Len(intents[i].patterns)} : i \in 1..Len(intents)}

IntentInputs ==
    {p \o <<" ">> \o q : p \in Patterns, q \in Patterns}
        \cup Patterns
        \cup {<< >>, <<"w","h","y">>, <<"f","i","n","e">>, <<"w","o","w">>, <<"T","h","a","n","k","s",","," ","H","E","L","L","O">>, <<"B","Y","E">>, <<"I"," ","K","n","o","w">>,
              <<"O","K",","," ","E","x","p","l","a","i","n">>, <<"t","h","i","s">>, <<"a","n","y","t","h","i","n","g">>}

Call_identify_intent ==
    /\ last.fn = "_identify_intent"
    /\ Returning(identify_intent(last.arg))

SpecIntent == Calling("_identify_intent", IntentInputs) /\ [][Call_identify_intent]_vars

TopicAlphabet == {"u", "s", "a", "g", "e", "m", "_", " ", "A"}

Topics ==
    UNION {[1..n -> TopicAlphabet] : n \in 0..MaxTopicLen}
        \cup {<<"a","b","o","u","t"," ","m","e">>, <<"A","B","O","U","T","_","M","E">>, <<"x","y","z","-","n","o","t","-","p","r","e","s","e","n","t">>, <<"a","b","o","u","t","_","m","e">>, <<" ","A","b","o","u","t","_","M","e","\n">>,
              <<"u","s","a">>, <<"t","h","e"," ","U","S","A">>, <<"g","r","e","e","t","i","n","g">>, <<"g","r","e","e","t","i","n","g","s">>, <<"a","b","o","u","t">>, <<"c","a","t","s">>}

Call_get_knowledge ==
    /\ last.fn = "get_knowledge"
    /\ Returning(get_knowledge(last.arg))

SpecKB == Calling("get_knowledge", Topics) /\ [][Call_get_knowledge]_vars

\* the length of the long text of the formatting example
LongLen == 600

Filler(n) == [i \in 1..n |-> "x"]

\* single-line texts of n characters
Texts(n) ==
    {Str(prefix \o Filler(n - Len(prefix) - Len(suffix)) \o suffix) :
        prefix \in {<< >>, <<" ">>, <<"E","l","l","a","B","e","l","l","a",":">>, <<"A","s","s","i","s","t","a","n","t",":">>},
        suffix \in {<< >>, <<" ">>, <<".">>}}

FormatInputs ==
    UNION {Texts(n) : n \in ((MAX_RESPONSE_LEN - LenSlack)..(MAX_RESPONSE_LEN + LenSlack))
                              \cup {LongLen}}
        \cup {None, Str(<< >>), Str(<<" "," ">>), List(GREETING_LIST), Str(<<"L","i","n","e","1","\n"," "," ","\n","L","i","n","e","2">>),
              Str(<<"E","l","l","a","B","e","l","l","a",":"," ","A","s","s","i","s","t","a","n","t",":"," ","o","k">>), Str(Filler(MAX_RESPONSE_LEN) \o <<"\n","x","x">>),
              Str(USA_TEXT), Str(ABOUT_ME_TEXT)}

Call_format_response ==
    /\ last.fn = "_format_response"
    /\ Returning(format_response(last.arg))

SpecFormat == Calling("_format_response", FormatInputs) /\ [][Call_format_response]_vars

(***************************************************************************)
(* Properties.                                                             *)
(***************************************************************************)
Min(a, b) == IF a <= b THEN a ELSE b
Least(S) == CHOOSE i \in S : \A j \in S : i <= j
Greatest(S) == CHOOSE i \in S : \A j \in S : j <= i
IsTurn == last.fn = "generate_response"

\* C1: every generate_response call, on whichever path, appends exactly two
\* entries, the user's input with sender "user" and then the returned response
\* with sender "EllaBella": after n turns the log has 2n entries with senders
\* alternating user, EllaBella; and a turn with input "hi" returns the fixed
\* greeting "Hello! How can I help you today?".
C1_TwoEntriesPerTurn ==
    /\ Len(conversation_history) = 2 * turns
    /\ \A i \in 1..Len(conversation_history) :
           conversation_history[i].sender = IF i % 2 = 1 THEN "user" ELSE "EllaBella"
    /\ IsTurn =>
           /\ conversation_history[Len(conversation_history) - 1].content = last.arg
           /\ Str(conversation_history[Len(conversation_history)].content) = last.out.response
           /\ last.arg = <<"h","i">> =>
                  last.out.response = Str(<<"H","e","l","l","o","!"," ","H","o","w"," ","c","a","n"," ","I"," ","h","e","l","p"," ","y","o","u"," ","t","o","d","a","y","?">>)

\* C1 witness: three turns, the first answered by the except clause, the
\* second from the knowledge base, the third the canned greeting to "hi".
C1_Witness ==
    /\ IsTurn /\ turns = 3
    /\ last.arg = <<"h","i">>
    /\ conversation_history[2].content = APOLOGY
    /\ conversation_history[3].content = <<"t","e","l","l"," ","m","e"," ","a","b","o","u","t"," ","a","b","o","u","t","_","m","e">>
    /\ Len(conversation_history) = 6

\* C3 (as claimed): once main() has constructed the chatbot with the token set,
\* construction has not failed, the preference file holds the preferences in
\* use (the defaults written back when it was absent or malformed) and the
\* session has reached its first prompt.
C3_DefaultsWrittenBack ==
    (pc # "start" /\ ~(last.fn = "main" /\ last.raised = "ValueError")) =>
        /\ pc \in {"loop", "done"}
        /\ prefs_file = Contents(user_preferences)

\* C4 (as claimed): whenever a step of a turn raised, the remote completion
\* included, the response is the fixed apology.
C4_AnyRaiseGivesApology ==
    IsTurn /\ (last.out.caught \/ last.out.remote_raised) =>
        last.out.response = Str(APOLOGY)

C4_State ==
    /\ pc = "crashed" => turns = 0
    /\ IsTurn =>
           /\ last.out.response.type = "str"
           /\ last.out.caught =>
                  /\ last.out.response =
                         Str(<<"I"," ","a","p","o","l","o","g","i","z","e",","," ","b","u","t"," ","I"," ","e","n","c","o","u","n","t","e","r","e","d"," ","a","n"," ","e","r","r","o","r"," ","w","h","i","l","e"," ","p","r","o","c","e","s","s","i","n","g"," ","y","o","u","r"," ","r","e","q","u","e","s","t",".">>)
                  /\ conversation_history[Len(conversation_history)] =
                         [content |-> last.out.response.v, timestamp |-> clock,
                          sender |-> "EllaBella"]
           /\ last.out.remote_raised =>
                  last.out.response =
                      Str(<<"I"," ","a","p","o","l","o","g","i","z","e",","," ","b","u","t"," ","I","'","m"," ","h","a","v","i","n","g"," ","t","r","o","u","b","l","e"," ","a","c","c","e","s","s","i","n","g"," ","m","y"," ","k","n","o","w","l","e","d","g","e"," ","b","a","s","e"," ","r","i","g","h","t"," ","n","o","w",".">>)

C4_NextTurn ==
    (IsTurn /\ last.out.caught /\ turns' = turns + 1) =>
        /\ pc' = "loop"
        /\ Len(conversation_history') = Len(conversation_history) + 2
        /\ last'.out.response.type = "str"
        /\ last'.arg = <<"h","i">> => last'.out.response = Str(HELLO)
        /\ last'.arg = <<"w","h","y">> => last'.out.requests = 1

\* C4 (amended): generate_response never raises to its caller. If an exception
\* reaches its except clause (classification, dispatch, knowledge lookup or
\* formatting raised), the response is exactly the fixed apology, it is
\* appended to the log, and the following turn is processed normally. An
\* exception inside the remote completion is caught there instead, and the
\* response is "I apologize, but I'm having trouble accessing my knowledge
\* base right now.".
C4_CaughtGivesApology == [](C4_State) /\ [][C4_NextTurn]_vars

\* C4 witness: a turn answered by the except clause, followed by a turn on
\* "hi" that got the greeting.
C4_Witness ==
    /\ IsTurn /\ turns = 2
    /\ conversation_history[1].content = <<"t","e","l","l"," ","m","e"," ","a","b","o","u","t"," ","g","r","e","e","t","i","n","g">>
    /\ conversation_history[2].content = APOLOGY
    /\ last.arg = <<"h","i">> /\ last.out.response = Str(HELLO)

\* C9: get_conversation_summary returns at most 10 entries, exactly the last
\* min(10, length) entries of conversation_history in their original order,
\* and leaves conversation_history unchanged.
C9_SummaryIsLastTen ==
    [][last'.fn = "get_conversation_summary" =>
          LET n == Len(conversation_history)
              k == Len(last'.ret)
          IN  /\ k <= 10
              /\ k = Min(10, n)
              /\ \A i \in 1..k :
                     /\ last'.ret[i].content = conversation_history[n - k + i].content
                     /\ last'.ret[i].sender = conversation_history[n - k + i].sender
                     /\ last'.ret[i].timestamp =
                            IsoFormat(conversation_history[n - k + i].timestamp)
              /\ conversation_history' = conversation_history]_vars

\* C9 witness: a summary of ten entries taken of a log of twelve.
C9_Witness ==
    /\ last.fn = "get_conversation_summary"
    /\ Len(conversation_history) = 12
    /\ Len(last.ret) = 10
    /\ last.ret[1].content = conversation_history[3].content
    /\ last.ret[1].timestamp = IsoFormat(3)

\* C10: in the interactive loop, an input that trimmed equals quit, exit or bye
\* in any letter case ends the session with the farewell "Goodbye! Have a
\* great day!" without being processed as a turn (nothing is appended to the
\* log, no remote call is made); every other input is processed as exactly one
\* turn, after which the loop prompts again.
C10_QuitWordsEndTheSession ==
    [][(pc = "loop" /\ (turns' # turns \/ pc' # "loop")) =>
          IF Lower(Strip(line')) \in {<<"q","u","i","t">>, <<"e","x","i","t">>, <<"b","y","e">>}
          THEN /\ pc' = "done"
               /\ printed' = <<"E","l","l","a","B","e","l","l","a",":"," ","G","o","o","d","b","y","e","!"," ","H","a","v","e"," ","a"," ","g","r","e","a","t"," ","d","a","y","!">>
               /\ turns' = turns
               /\ conversation_history' = conversation_history
               /\ api_requests' = api_requests
          ELSE /\ pc' = "loop"
               /\ turns' = turns + 1
               /\ Len(conversation_history') = Len(conversation_history) + 2
               /\ conversation_history'[Len(conversation_history) + 1].content = Strip(line')
               /\ printed' = <<"E","l","l","a","B","e","l","l","a",":"," ">> \o conversation_history'[Len(conversation_history')].content]_vars

\* C10 witness: the session ended on " BYE " after two turns, the second on
\* "bye!", which is no quit word.
C10_Witness ==
    /\ pc = "done"
    /\ line = <<" ","B","Y","E"," ">>
    /\ turns = 2
    /\ conversation_history[3].content = <<"b","y","e","!">>
    /\ Len(conversation_history) = 4

\* the topic of C2: the trimmed text after the last occurrence of the phrase
C2_Topic(user_input) ==
    LET lowered == Lower(user_input)
        at == Greatest(Occurrences(lowered, <<"t","e","l","l"," ","m","e"," ","a","b","o","u","t">>))
    IN  Strip(SubSeq(lowered, at + Len(<<"t","e","l","l"," ","m","e"," ","a","b","o","u","t">>), Len(lowered)))

\* C2 (as claimed): in a turn whose intent is none of greeting, about_bot,
\* farewell, gratitude and whose lowercased input contains "tell me about",
\* with the topic the trimmed text after the last occurrence of the phrase: if
\* get_knowledge finds an entry for the topic the response is that entry,
\* formatted, and no remote call is made; otherwise the remote completion is
\* called with the raw input.
C2_KnowledgeBeforeRemote ==
    (/\ IsTurn
     /\ last.out.intent \notin {"greeting", "about_bot", "farewell", "gratitude"}
     /\ In(<<"t","e","l","l"," ","m","e"," ","a","b","o","u","t">>, Lower(last.arg))) =>
        LET found == get_knowledge(C2_Topic(last.arg))
        IN  IF found # None
            THEN last.out.response = format_response(found) /\ last.out.requests = 0
            ELSE last.out.requests = 1 /\ last.out.inputs = Str(last.arg)

C5_Reached == IsTurn /\ last.out.requests > 0 /\ last.out.post.kind = "response"

C5_Clarifies ==
    /\ last.out.response =
           Str(<<"I"," ","a","p","o","l","o","g","i","z","e",","," ","b","u","t"," ","I"," ","n","e","e","d"," ","m","o","r","e"," ","c","o","n","t","e","x","t"," ","t","o"," ","p","r","o","v","i","d","e"," ","a"," ","h","e","l","p","f","u","l"," ","r","e","s","p","o","n","s","e","."," ","C","o","u","l","d"," ","y","o","u"," ","p","l","e","a","s","e"," ","e","l","a","b","o","r","a","t","e","?">>)
    /\ last.out.requests = 1
    /\ api_requests = 1
    /\ pc = "loop"
    /\ conversation_history[Len(conversation_history)] =
           [content |-> last.out.response.v, timestamp |-> clock, sender |-> "EllaBella"]

C5_NonEmptyList(body) == body.type = "list" /\ body.v # << >>

\* C5 (as claimed): in a turn that reaches the remote completion, if the status
\* is not 200, or the 200 body is not a non-empty list, the response is the
\* fixed clarification string, nothing is raised, exactly one request was made
\* and the response is appended to the log.
C5_FailureGivesClarification ==
    (C5_Reached /\ (last.out.post.status_code # 200 \/ ~C5_NonEmptyList(last.out.post.body)))
        => C5_Clarifies

\* C5 (amended): in a turn that reaches the remote completion, if the status is
\* not 200, or the 200 body parses as JSON to something other than a non-empty
\* list, the response is the fixed clarification string, nothing is raised,
\* exactly one request was made and the response is appended to the log; a 200
\* body that does not parse as JSON gives "I apologize, but I'm having trouble
\* accessing my knowledge base right now." instead, under the same conditions.
C5_ParsedFailureGivesClarification ==
    C5_Reached =>
        LET post == last.out.post
        IN  /\ (post.status_code # 200 \/
                    (post.body.type # "raise" /\ ~C5_NonEmptyList(post.body)))
                   => C5_Clarifies
            /\ (post.status_code = 200 /\ post.body.type = "raise") =>
                   /\ last.out.response =
                          Str(<<"I"," ","a","p","o","l","o","g","i","z","e",","," ","b","u","t"," ","I","'","m"," ","h","a","v","i","n","g"," ","t","r","o","u","b","l","e"," ","a","c","c","e","s","s","i","n","g"," ","m","y"," ","k","n","o","w","l","e","d","g","e"," ","b","a","s","e"," ","r","i","g","h","t"," ","n","o","w",".">>)
                   /\ last.out.requests = 1
                   /\ pc = "loop"
                   /\ conversation_history[2].content = last.out.response.v

\* C5 witness: a turn on "why" whose request ended with status 404 and a body
\* that would have been a success, answered by the clarification string.
C5_Witness ==
    /\ C5_Reached
    /\ last.arg = <<"w","h","y">>
    /\ last.out.post = Response(404, List(<<Dict([generated_text |-> Str(GENERATED)])>>))
    /\ last.out.response = Str(NEED_CONTEXT)
    /\ Len(conversation_history) = 2

C6_Order ==
    <<"greeting", "about_bot", "farewell", "about_topic", "personal_info",
      "affirmation", "negation", "gratitude">>

\* the groups of C6_Order with a keyword that is a substring of the text
C6_Groups(text) ==
    {g \in 1..Len(C6_Order) :
        \E i \in 1..Len(intents) :
            /\ intents[i].intent = C6_Order[g]
            /\ \E p \in Patterns : /\ In(p, text)
                                   /\ \E k \in 1..Len(intents[i].patterns) :
                                          intents[i].patterns[k] = p}

\* C6: for an input containing keywords of two different intent groups (of one
\* or more, in general), _identify_intent returns with confidence 0.8 the
\* intent that comes first in the order greeting, about_bot, farewell,
\* about_topic, personal_info, affirmation, negation, gratitude, containment
\* being substring containment in the lowercased input; an input containing no
\* keyword returns general_query with confidence 0.5.
C6_FirstGroupInTableOrderWins ==
    (last.fn = "_identify_intent" /\ last.returned) =>
        LET groups == C6_Groups(Lower(last.arg))
        IN  IF groups = {} THEN last.ret = <<"general_query", 5>>
            ELSE last.ret = <<C6_Order[Least(groups)], 8>>

\* C6 witness: "thanks hello" holds keywords of gratitude and of greeting, and
\* is a greeting.
C6_Witness ==
    /\ last.fn = "_identify_intent" /\ last.returned
    /\ last.arg = <<"t","h","a","n","k","s"," ","h","e","l","l","o">>
    /\ C6_Groups(last.arg) = {1, 8}
    /\ last.ret = <<"greeting", 8>>

C7_Called == last.fn = "get_knowledge" /\ last.returned

\* C7 (as claimed): get_knowledge("about me") and get_knowledge("ABOUT_ME")
\* both return the about_me text, and get_knowledge("xyz-not-present")
\* returns absent.
C7_AboutMeWithSpace ==
    C7_Called =>
        /\ last.arg = <<"a","b","o","u","t"," ","m","e">> => last.ret = Str(ABOUT_ME_TEXT)
        /\ last.arg = <<"A","B","O","U","T","_","M","E">> => last.ret = Str(ABOUT_ME_TEXT)
        /\ last.arg = <<"x","y","z","-","n","o","t","-","p","r","e","s","e","n","t">> => last.ret = None

C7_Keys == <<<<"u","s","a">>, <<"g","r","e","e","t","i","n","g">>, <<"a","b","o","u","t","_","m","e">>>>

C7_Value(n) == (CHOOSE e \in {knowledge[i] : i \in 1..Len(knowledge)} : e.key = C7_Keys[n]).value

\* C7 (amended): get_knowledge("ABOUT_ME") returns the exact about_me text,
\* while get_knowledge("about me") and get_knowledge("xyz-not-present") return
\* absent; lookup lowercases and trims the topic, tries an exact key match,
\* then returns the first key in the order usa, greeting, about_me that is a
\* substring of the topic or of which the topic is a substring, and returns
\* absent when no key qualifies.
C7_LookupByKeyThenSubstring ==
    C7_Called =>
        LET topic == Strip(Lower(last.arg))
            exact == {n \in 1..3 : C7_Keys[n] = topic}
            partial == {n \in 1..3 : In(C7_Keys[n], topic) \/ In(topic, C7_Keys[n])}
        IN  /\ last.arg = <<"A","B","O","U","T","_","M","E">> => last.ret = Str(ABOUT_ME_TEXT)
            /\ last.arg = <<"a","b","o","u","t"," ","m","e">> => last.ret = None
            /\ last.arg = <<"x","y","z","-","n","o","t","-","p","r","e","s","e","n","t">> => last.ret = None
            /\ last.ret = IF exact # {} THEN C7_Value(Least(exact))
                          ELSE IF partial # {} THEN C7_Value(Least(partial))
                          ELSE None

\* C7 witness: the lookup of "ABOUT_ME" returned the about_me text.
C7_Witness ==
    C7_Called /\ last.arg = <<"A","B","O","U","T","_","M","E">> /\ last.ret = Str(ABOUT_ME_TEXT)

C8_Long == last.fn = "_format_response" /\ last.returned
               /\ last.arg.type = "str" /\ Len(last.arg.v) > 500
               /\ \A i \in 1..Len(last.arg.v) : last.arg.v[i] # "\n"

C8_Truncated ==
    /\ last.ret.type = "str"
    /\ Len(last.ret.v) = 500
    /\ SubSeq(last.ret.v, 498, 500) = <<".",".",".">>
    /\ SubSeq(last.ret.v, 1, 497) = SubSeq(last.arg.v, 1, 497)

\* C8 (as claimed): formatting any single-line string of more than 500
\* characters yields exactly 500 characters, the last three "..." and the
\* first 497 those of the source.
C8_AnyLongLineTruncated == C8_Long => C8_Truncated

C8_Plain ==
    /\ Occurrences(last.arg.v, <<"E","l","l","a","B","e","l","l","a",":">>) = {}
    /\ Occurrences(last.arg.v, <<"A","s","s","i","s","t","a","n","t",":">>) = {}
    /\ last.arg.v[1] \notin Whitespace
    /\ last.arg.v[Len(last.arg.v)] \notin Whitespace

\* C8 (amended): formatting a single-line string of more than 500 characters
\* that contains neither "EllaBella:" nor "Assistant:" and neither begins nor
\* ends with whitespace yields exactly 500 characters, the last three "..." and
\* the first 497 those of the source.
C8_PlainLongLineTruncated == (C8_Long /\ C8_Plain) => C8_Truncated

\* C8 witness: a plain line of 600 characters came back as 500.
C8_Witness ==
    /\ C8_Long /\ C8_Plain
    /\ Len(last.arg.v) = 600
    /\ Len(last.ret.v) = 500

====
